---------------------------- MODULE Spec2Model ----------------------------
(***************************************************************************)
(* A model of src/src/volumes/volumephotonmap.cpp (VolumePhotonMap: photon *)
(* shooting in Surface_Preprocess / TraceThrough, the bounded neighbour    *)
(* collector PhotonProcess, and the shading entry points Surface_Li and    *)
(* Volume_Li) and of src/src/lights/medianCutEnvironmentLight.cpp.         *)
(*                                                                         *)
(* Five state machines share the module, each with its own specification:  *)
(*   Spec        the photon shooting pass (Surface_Preprocess)             *)
(*   LookupSpec  one kd-tree lookup feeding PhotonProcess::operator()      *)
(*   RadianceLookupSpec  one lookup feeding RadiancePhotonProcess          *)
(*   LiSpec      shading queries (Surface_Li, Volume_Li) after preprocess  *)
(*   LightSpec   MedianCutEnvironmentLight objects and the vector leafs    *)
(* A specification leaves the variables of the other machines unchanged.   *)
(*                                                                         *)
(* Photon sets are modelled by their sizes (vector::size()), a photon map  *)
(* by whether it was constructed and from how many photons.  Random draws, *)
(* scene intersections and BSDF answers are nondeterministic inputs.       *)
(***************************************************************************)
EXTENDS Integers, Sequences, FiniteSets, TLC

(***************************************************************************)
(* Bounds of the model.                                                    *)
(***************************************************************************)
\* largest photon target (causticphotons / indirectphotons / volumephotons)
MaxTarget == 2
\* most radiance-photon candidates one preprocess stores (the code stores one
\* whenever RandomFloat() < .125; the model lets that draw succeed this often)
MaxRadiance == 1
\* stands for the 500000 of line 444: shots before the stall test applies
StallShots == 2
\* stands for the 1024 of line 130: the divisor of the stall test
StallDivisor == 2
\* stands for the 10 of line 575: the bounce cap of one light path
BounceCap == 2

\* most Preprocess calls the renderer makes (one per integrator wrapper, lines
\* 960-962 and 983-985, and one more)
MaxCalls == 2

\* largest nLookup of a collector (nused; the final gather uses 50)
MaxLookup == 2
\* number of photons a lookup can be handed
MaxPhotons == 3
\* largest squared distance of a photon from the lookup point
MaxDist2 == 2

\* largest maxSpecularDepth (maxdepth)
MaxDepth == 2
\* largest finite value of the float searchDist2, in units of maxDistSquared
FloatMax == 4

\* a shot number the loop of line 441 never reaches: the stall test ends it
\* before (ShotsBounded)
ShotCap == StallShots + StallDivisor * MaxTarget + 1

VARIABLES
    \* ---- configuration (Surface_Init, Volume_Init, the scene) ----
    nCausticPhotons, nIndirectPhotons, nVolumePhotons, finalGather, nLights,
    \* ---- Surface_Preprocess ----
    \* nCalls: how many times Preprocess was called so far (history)
    nCalls, alreadyPreprocessed, pc, nshot, aborted,
    \* history: whether the latest shot left the loop body at line 480 or
    \* skipped the walk at line 483
    blackShot,
    causticPhotons, indirectPhotons, directPhotons, volumePhotons,
    radiancePhotons, rpIndex,
    causticDone, indirectDone, volumeDone,
    nCausticPaths, nIndirectPaths, nVolumePaths, nDirectPaths,
    causticMap, indirectMap, volumeMap, radianceMap, directMap,
    nIntersections, specularPath,
    \* history of the light path being walked.  pathHistory: "none" before its
    \* first scattering event, "specular" while every scattering event was a
    \* specular surface bounce, "mixed" once one was a medium scattering or a
    \* non-specular bounce.  flags: the lobe that the bounce just made sampled
    \* (line 566), "none" otherwise
    pathHistory, flags,
    \* ---- one lookup: PhotonProcess (lines 69-77) and the float &maxDistSquared ----
    nLookup, photons, foundPhotons, md2,
    \* history of the lookup: the candidates passed to operator() so far,
    \* whether each was closer than the bound at the time it was passed (as a
    \* kd-tree traversal guarantees), whether a slot outside the buffer was written
    seen, withinBound, wroteOutside,
    \* ---- one radiance lookup: RadiancePhotonProcess::photon (line 60), the
    \* address of the radiance photon held, 0 for NULL ----
    photon,
    \* ---- shading: Surface_Li (lines 621-840), Volume_Li (lines 858-939) ----
    maxSpecularDepth, specularDepth, maxDistSquared,
    \* the Surface_Li calls in progress, innermost last; the searchDist2 of the
    \* final gather; whether a query dereferenced a null map
    stack, searchDist2, liFault,
    \* history: whether every read so far of an absent or empty map contributed
    \* zero, whether every read of a map holding fewer photons than the lookup
    \* asks for did; the last return of Surface_Li with specularDepth on entry
    \* and on exit
    absentReadZero, fewReadZero, lastReturn,
    \* ---- src/src/lights/medianCutEnvironmentLight.cpp ----
    \* the MedianCutEnvironmentLight objects constructed so far, numbered in
    \* the order of their construction, and those of them destructed since
    constructed, destructed,
    \* the member nSamples of each light (0 before its construction)
    nSamples,
    \* the file-scope vector leafs of line 43: pointers to MedianCutRect nodes
    leafs,
    \* history: the leaf the latest Sample_L selected, for which light, and
    \* whether it was deleted by then
    selected,
    \* "ok" until a deleted MedianCutRect is read or written, then what the
    \* use of freed memory led to: "corrupt" (the run goes on) or "crashed"
    lightRun

configVars == <<nCausticPhotons, nIndirectPhotons, nVolumePhotons, finalGather, nLights>>
countVars == <<causticPhotons, indirectPhotons, directPhotons, volumePhotons>>
doneVars == <<causticDone, indirectDone, volumeDone>>
pathsVars == <<nCausticPaths, nIndirectPaths, nVolumePaths, nDirectPaths>>
mapVars == <<causticMap, indirectMap, volumeMap, radianceMap, directMap>>
walkVars == <<nIntersections, specularPath, pathHistory, flags>>
prepVars == <<nCalls, alreadyPreprocessed, pc, nshot, aborted, blackShot, countVars,
              radiancePhotons,
              rpIndex, doneVars, pathsVars, mapVars, walkVars>>

lookupVars == <<nLookup, photons, foundPhotons, md2, seen, withinBound, wroteOutside,
                photon>>

liVars == <<maxSpecularDepth, specularDepth, maxDistSquared, stack, searchDist2,
            liFault, absentReadZero, fewReadZero, lastReturn>>

readVars == <<absentReadZero, fewReadZero>>

lightVars == <<constructed, destructed, nSamples, leafs, selected, lightRun>>

vars == <<configVars, prepVars, lookupVars, liVars, lightVars>>

(***************************************************************************)
(* Photon maps.  A KdTree pointer is NULL or points to a tree built from n *)
(* photons.                                                                *)
(***************************************************************************)
NULL == [built |-> FALSE, n |-> 0]
KdTree(size) == [built |-> TRUE, n |-> size]

\* the test of lines 128-131 without its comparison to the target
unsuccessfulIgnoringTarget(needed, found, shot) ==
    found = 0 \/ found < shot \div StallDivisor

\* line 128-131
unsuccessful(needed, found, shot) ==
    found < needed /\ (found = 0 \/ found < shot \div StallDivisor)

\* the stall test without its caustic clause
GiveUpNoCaustic(shot) ==
    /\ shot > StallShots
    /\ \/ unsuccessful(nIndirectPhotons, indirectPhotons, shot)
       \/ unsuccessful(nVolumePhotons, volumePhotons, shot)

\* the stall test of lines 444-453, on the shot number just incremented
GiveUp(shot) ==
    /\ shot > StallShots
    /\ \/ unsuccessful(nCausticPhotons, causticPhotons, shot)
       \/ unsuccessful(nIndirectPhotons, indirectPhotons, shot)
       \/ unsuccessful(nVolumePhotons, volumePhotons, shot)

\* the loop condition of line 441
StillShooting == ~causticDone \/ ~indirectDone \/ ~volumeDone

\* the photon targets tried: none, one photon, the largest
Targets == {0, 1, MaxTarget}

(***************************************************************************)
(* Init: the state after Surface_Init and Volume_Init on the global        *)
(* VolumePhotonMap (lines 264-280, 114), before Preprocess is called.      *)
(***************************************************************************)
PrepInit ==
    /\ nCausticPhotons \in Targets
    /\ nIndirectPhotons \in Targets
    /\ nVolumePhotons \in Targets
    /\ finalGather \in BOOLEAN
    /\ nLights \in 0..1
    /\ nCalls = 0
    /\ alreadyPreprocessed = FALSE
    /\ pc = "idle"
    /\ nshot = 0
    /\ aborted = FALSE
    /\ blackShot = FALSE
    /\ causticPhotons = 0 /\ indirectPhotons = 0
    /\ directPhotons = 0 /\ volumePhotons = 0
    /\ radiancePhotons = <<>>
    /\ rpIndex = 0
    /\ causticDone = FALSE /\ indirectDone = FALSE /\ volumeDone = FALSE
    /\ nCausticPaths = 0 /\ nIndirectPaths = 0
    /\ nVolumePaths = 0 /\ nDirectPaths = 0
    /\ causticMap = NULL /\ indirectMap = NULL /\ volumeMap = NULL
    /\ radianceMap = NULL /\ directMap = NULL
    /\ nIntersections = 0
    /\ specularPath = FALSE
    /\ pathHistory = "none"
    /\ flags = "none"

\* no lookup is running
LookupIdle ==
    /\ nLookup = 1
    /\ photons = <<>>
    /\ foundPhotons = 0
    /\ md2 = 0
    /\ seen = {}
    /\ withinBound = TRUE
    /\ wroteOutside = FALSE
    /\ photon = 0

\* no shading query is running (Surface_Init, lines 270-274)
LiIdle ==
    /\ maxSpecularDepth = 0
    /\ specularDepth = 0
    /\ maxDistSquared = 1
    /\ stack = <<>>
    /\ searchDist2 = 0
    /\ liFault = FALSE
    /\ absentReadZero = TRUE
    /\ fewReadZero = TRUE
    /\ lastReturn = [entry |-> 0, exit |-> 0]

\* no MedianCutEnvironmentLight was constructed yet: leafs is empty (line 43)
NoSelection == [by |-> 0, leaf |-> [light |-> 0, node |-> 0], deleted |-> FALSE]

LightIdle ==
    /\ constructed = {}
    /\ destructed = {}
    /\ nSamples = <<>>
    /\ leafs = <<>>
    /\ selected = NoSelection
    /\ lightRun = "ok"

Init == PrepInit /\ LookupIdle /\ LiIdle /\ LightIdle

(***************************************************************************)
(* Surface_Preprocess, lines 409-439: the guard, the early return of a     *)
(* scene without lights, the completion flags.                             *)
(***************************************************************************)
\* the completion flags all start false, whatever the targets
PreprocessFirstNoFlags ==
    /\ pc = "idle"
    /\ ~alreadyPreprocessed
    /\ nCalls' = nCalls + 1
    /\ alreadyPreprocessed' = TRUE
    /\ IF nLights = 0
         THEN /\ pc' = "returned"
              /\ UNCHANGED doneVars
         ELSE /\ pc' = "loop"
              /\ causticDone' = FALSE
              /\ indirectDone' = FALSE
              /\ volumeDone' = FALSE
    /\ UNCHANGED <<lightVars, lookupVars, liVars, configVars, blackShot,
                   nshot, aborted, countVars, radiancePhotons, rpIndex,
                   pathsVars, mapVars, walkVars>>

PreprocessFirst ==
    /\ pc = "idle"
    /\ ~alreadyPreprocessed
    /\ nCalls' = nCalls + 1
    /\ alreadyPreprocessed' = TRUE
    /\ IF nLights = 0
         THEN /\ pc' = "returned"
              /\ UNCHANGED doneVars
         ELSE /\ pc' = "loop"
              /\ causticDone' = (nCausticPhotons = 0)
              /\ indirectDone' = (nIndirectPhotons = 0)
              /\ volumeDone' = (nVolumePhotons = 0)
    /\ UNCHANGED <<lightVars, lookupVars, liVars, configVars, blackShot,
                   nshot, aborted, countVars, radiancePhotons, rpIndex,
                   pathsVars, mapVars, walkVars>>

\* a later call without the guard of line 410: lines 411-439 run again, the
\* photon vectors of lines 431-436 are new and empty
PreprocessAgainReshoot ==
    /\ pc = "returned"
    /\ nCalls < MaxCalls
    /\ nCalls' = nCalls + 1
    /\ IF nLights = 0
         THEN UNCHANGED <<pc, doneVars, countVars, radiancePhotons>>
         ELSE /\ pc' = "loop"
              /\ causticDone' = (nCausticPhotons = 0)
              /\ indirectDone' = (nIndirectPhotons = 0)
              /\ volumeDone' = (nVolumePhotons = 0)
              /\ causticPhotons' = 0 /\ indirectPhotons' = 0
              /\ directPhotons' = 0 /\ volumePhotons' = 0
              /\ radiancePhotons' = <<>>
    /\ UNCHANGED <<lightVars, lookupVars, liVars, configVars, blackShot,
                   alreadyPreprocessed, nshot, aborted, rpIndex, pathsVars,
                   mapVars, walkVars>>

\* a later call through either wrapper (lines 960-962, 983-985): line 410
\* returns at once
PreprocessAgain ==
    /\ pc = "returned"
    /\ alreadyPreprocessed
    /\ nCalls < MaxCalls
    /\ nCalls' = nCalls + 1
    /\ UNCHANGED <<lightVars, lookupVars, liVars, configVars, blackShot,
                   alreadyPreprocessed, pc, nshot, aborted, countVars,
                   radiancePhotons, rpIndex, doneVars, pathsVars, mapVars,
                   walkVars>>

(***************************************************************************)
(* The head of the shooting loop, lines 441-483.                           *)
(***************************************************************************)
\* line 441: the loop condition is false
LoopExit ==
    /\ pc = "loop"
    /\ ~StillShooting
    /\ pc' = "post"
    /\ UNCHANGED <<lightVars, lookupVars, liVars, configVars, nCalls,
                   blackShot, alreadyPreprocessed, nshot, aborted, countVars,
                   radiancePhotons, rpIndex, doneVars, pathsVars, mapVars,
                   walkVars>>

\* lines 442-459: give up
StallAbort ==
    /\ pc = "loop"
    /\ StillShooting
    /\ nshot < ShotCap
    /\ GiveUp(nshot + 1)
    /\ nshot' = nshot + 1
    /\ aborted' = TRUE
    /\ pc' = "returned"
    /\ UNCHANGED <<lightVars, lookupVars, liVars, configVars, nCalls,
                   blackShot, alreadyPreprocessed, countVars, radiancePhotons,
                   rpIndex, doneVars, pathsVars, mapVars, walkVars>>

\* the shot of line 480 going on to store its photon as a direct photon
ShotNoEmissionStores ==
    /\ pc = "loop"
    /\ StillShooting
    /\ nshot < ShotCap
    /\ ~GiveUp(nshot + 1)
    /\ nshot' = nshot + 1
    /\ blackShot' = TRUE
    /\ directPhotons' = directPhotons + 1
    /\ UNCHANGED <<lightVars, lookupVars, liVars, configVars, nCalls,
                   alreadyPreprocessed, pc, aborted, causticPhotons,
                   indirectPhotons, volumePhotons, radiancePhotons, rpIndex,
                   doneVars, pathsVars, mapVars, walkVars>>

\* line 480 (pdf == 0 or black alpha: continue) and line 483 (alpha black
\* after the division: the walk is skipped)
ShotNoEmission ==
    /\ pc = "loop"
    /\ StillShooting
    /\ nshot < ShotCap
    /\ ~GiveUp(nshot + 1)
    /\ nshot' = nshot + 1
    /\ blackShot' = TRUE
    /\ UNCHANGED <<lightVars, lookupVars, liVars, configVars, nCalls,
                   alreadyPreprocessed, pc, aborted, countVars,
                   radiancePhotons, rpIndex, doneVars, pathsVars, mapVars,
                   walkVars>>

\* lines 483-487: a path starts
ShotEmit ==
    /\ pc = "loop"
    /\ StillShooting
    /\ nshot < ShotCap
    /\ ~GiveUp(nshot + 1)
    /\ nshot' = nshot + 1
    /\ specularPath' = FALSE
    /\ nIntersections' = 0
    /\ pathHistory' = "none"
    /\ flags' = "none"
    /\ blackShot' = FALSE
    /\ pc' = "intersect"
    /\ UNCHANGED <<lightVars, lookupVars, liVars, configVars, nCalls,
                   alreadyPreprocessed, aborted, countVars, radiancePhotons,
                   rpIndex, doneVars, pathsVars, mapVars>>

\* the path's locals go out of scope (line 582)
EndPath ==
    /\ pc' = "loop"
    /\ nIntersections' = 0
    /\ specularPath' = FALSE
    /\ pathHistory' = "none"
    /\ flags' = "none"

\* line 488-489: scene->Intersect hits
IntersectHit ==
    /\ pc = "intersect"
    /\ nIntersections' = nIntersections + 1
    /\ flags' = "none"
    /\ pc' = "trace"
    /\ UNCHANGED <<lightVars, lookupVars, liVars, configVars, nCalls,
                   blackShot, alreadyPreprocessed, nshot, aborted, countVars,
                   radiancePhotons, rpIndex, doneVars, pathsVars, mapVars,
                   specularPath, pathHistory>>

\* line 488: scene->Intersect misses, the walk ends
IntersectMiss ==
    /\ pc = "intersect"
    /\ EndPath
    /\ UNCHANGED <<lightVars, lookupVars, liVars, configVars, nCalls,
                   blackShot, alreadyPreprocessed, nshot, aborted, countVars,
                   radiancePhotons, rpIndex, doneVars, pathsVars, mapVars>>

(***************************************************************************)
(* TraceThrough, lines 365-407.  pc = "trace": at its entry; pc =          *)
(* "interact": in its while loop, RayMarch has found a medium interaction  *)
(* and lines 385-393 have run; pc = "march": in its while loop after a     *)
(* scattering event.                                                       *)
(***************************************************************************)
\* the volume photon stored at every interaction, complete or not
StoreVolumePhotonUnguarded ==
    /\ volumePhotons' = volumePhotons + 1
    /\ IF nVolumePhotons = volumePhotons + 1
         THEN /\ volumeDone' = TRUE
              /\ nVolumePaths' = nshot
              /\ volumeMap' = KdTree(volumePhotons + 1)
         ELSE UNCHANGED <<volumeDone, nVolumePaths, volumeMap>>

\* lines 385-393: the volume photon of one medium interaction
StoreVolumePhoton ==
    IF ~volumeDone
      THEN /\ volumePhotons' = volumePhotons + 1
           /\ IF nVolumePhotons = volumePhotons + 1
                THEN /\ volumeDone' = TRUE
                     /\ nVolumePaths' = nshot
                     /\ volumeMap' = KdTree(volumePhotons + 1)
                ELSE UNCHANGED <<volumeDone, nVolumePaths, volumeMap>>
      ELSE UNCHANGED <<volumePhotons, volumeDone, nVolumePaths, volumeMap>>

\* lines 369, 376 (no medium, or the surface is in front), or the loop of
\* line 381 ends at once and line 406 finds the surface again
TracePass ==
    /\ pc = "trace"
    /\ pc' = "surface"
    /\ UNCHANGED <<lightVars, lookupVars, liVars, configVars, nCalls,
                   blackShot, alreadyPreprocessed, nshot, aborted, countVars,
                   radiancePhotons, rpIndex, doneVars, pathsVars, mapVars,
                   walkVars>>

\* lines 381-393: RayMarch returns true, a medium interaction
TraceInteract ==
    /\ pc \in {"trace", "march"}
    /\ StoreVolumePhoton
    /\ pc' = "interact"
    /\ UNCHANGED <<lightVars, lookupVars, liVars, configVars, nCalls,
                   blackShot, alreadyPreprocessed, nshot, aborted,
                   causticPhotons, indirectPhotons, directPhotons,
                   radiancePhotons, rpIndex, causticDone, indirectDone,
                   nCausticPaths, nIndirectPaths, nDirectPaths, causticMap,
                   indirectMap, radianceMap, directMap, walkVars>>

\* lines 395-397: albedo < RandomFloat(), the photon is absorbed (return
\* false, the walk breaks at line 493)
TraceAbsorb ==
    /\ pc = "interact"
    /\ EndPath
    /\ UNCHANGED <<lightVars, lookupVars, liVars, configVars, nCalls,
                   blackShot, alreadyPreprocessed, nshot, aborted, countVars,
                   radiancePhotons, rpIndex, doneVars, pathsVars, mapVars>>

\* lines 398-402: the photon scatters and the loop goes on
TraceScatter ==
    /\ pc = "interact"
    /\ pathHistory' = "mixed"
    /\ pc' = "march"
    /\ UNCHANGED <<lightVars, lookupVars, liVars, configVars, nCalls,
                   blackShot, alreadyPreprocessed, nshot, aborted, countVars,
                   radiancePhotons, rpIndex, doneVars, pathsVars, mapVars,
                   nIntersections, specularPath, flags>>

\* lines 381, 405-406: the loop ends after a scattering event and the
\* scattered ray hits a surface
TraceExitHit ==
    /\ pc = "march"
    /\ pc' = "surface"
    /\ UNCHANGED <<lightVars, lookupVars, liVars, configVars, nCalls,
                   blackShot, alreadyPreprocessed, nshot, aborted, countVars,
                   radiancePhotons, rpIndex, doneVars, pathsVars, mapVars,
                   walkVars>>

\* lines 381, 405-406: the loop ends and the ray of line 405, the march ray
\* clipped to the medium by IntersectP, hits nothing
TraceExitMiss ==
    /\ pc \in {"trace", "march"}
    /\ EndPath
    /\ UNCHANGED <<lightVars, lookupVars, liVars, configVars, nCalls,
                   blackShot, alreadyPreprocessed, nshot, aborted, countVars,
                   radiancePhotons, rpIndex, doneVars, pathsVars, mapVars>>

(***************************************************************************)
(* The surface intersection, lines 495-580.                                *)
(***************************************************************************)
\* the caustic deposit without the test of causticDone
DepositCausticUnguarded ==
    /\ causticPhotons' = causticPhotons + 1
    /\ IF causticPhotons + 1 = nCausticPhotons
         THEN /\ causticDone' = TRUE
              /\ nCausticPaths' = nshot
              /\ causticMap' = KdTree(causticPhotons + 1)
         ELSE UNCHANGED <<causticDone, nCausticPaths, causticMap>>

\* lines 514-522
DepositCaustic ==
    IF ~causticDone
      THEN /\ causticPhotons' = causticPhotons + 1
           /\ IF causticPhotons + 1 = nCausticPhotons
                THEN /\ causticDone' = TRUE
                     /\ nCausticPaths' = nshot
                     /\ causticMap' = KdTree(causticPhotons + 1)
                ELSE UNCHANGED <<causticDone, nCausticPaths, causticMap>>
      ELSE UNCHANGED <<causticPhotons, causticDone, nCausticPaths, causticMap>>

\* the indirect deposit going on after completion, the map built again from
\* every photon beyond the target
DepositIndirectRebuild ==
    /\ indirectPhotons' = indirectPhotons + 1
    /\ IF indirectPhotons + 1 >= nIndirectPhotons
         THEN /\ indirectDone' = TRUE
              /\ nIndirectPaths' = nshot
              /\ indirectMap' = KdTree(indirectPhotons + 1)
         ELSE UNCHANGED <<indirectDone, nIndirectPaths, indirectMap>>

\* lines 526-534
DepositIndirect ==
    IF ~indirectDone
      THEN /\ indirectPhotons' = indirectPhotons + 1
           /\ IF indirectPhotons + 1 = nIndirectPhotons
                THEN /\ indirectDone' = TRUE
                     /\ nIndirectPaths' = nshot
                     /\ indirectMap' = KdTree(indirectPhotons + 1)
                ELSE UNCHANGED <<indirectDone, nIndirectPaths, indirectMap>>
      ELSE UNCHANGED <<indirectPhotons, indirectDone, nIndirectPaths, indirectMap>>

\* the direct deposit of line 508 made only while a category is pending
DepositPhotonWhilePending(hasNonSpecular) ==
    IF hasNonSpecular /\ nIntersections = 1
      THEN /\ directPhotons' = IF StillShooting THEN directPhotons + 1 ELSE directPhotons
           /\ UNCHANGED <<causticPhotons, causticDone, nCausticPaths,
                          causticMap, indirectPhotons, indirectDone,
                          nIndirectPaths, indirectMap>>
    ELSE IF hasNonSpecular /\ specularPath
      THEN /\ DepositCaustic
           /\ UNCHANGED <<directPhotons, indirectPhotons, indirectDone,
                          nIndirectPaths, indirectMap>>
    ELSE IF hasNonSpecular
      THEN /\ DepositIndirect
           /\ UNCHANGED <<directPhotons, causticPhotons, causticDone,
                          nCausticPaths, causticMap>>
    ELSE UNCHANGED <<directPhotons, causticPhotons, causticDone, nCausticPaths,
                     causticMap, indirectPhotons, indirectDone, nIndirectPaths,
                     indirectMap>>

\* lines 503-536
DepositPhoton(hasNonSpecular) ==
    IF hasNonSpecular /\ nIntersections = 1
      THEN /\ directPhotons' = directPhotons + 1
           /\ UNCHANGED <<causticPhotons, causticDone, nCausticPaths,
                          causticMap, indirectPhotons, indirectDone,
                          nIndirectPaths, indirectMap>>
    ELSE IF hasNonSpecular /\ specularPath
      THEN /\ DepositCaustic
           /\ UNCHANGED <<directPhotons, indirectPhotons, indirectDone,
                          nIndirectPaths, indirectMap>>
    ELSE IF hasNonSpecular
      THEN /\ DepositIndirect
           /\ UNCHANGED <<directPhotons, causticPhotons, causticDone,
                          nCausticPaths, causticMap>>
    ELSE UNCHANGED <<directPhotons, causticPhotons, causticDone, nCausticPaths,
                     causticMap, indirectPhotons, indirectDone, nIndirectPaths,
                     indirectMap>>

\* lines 537-548: RadiancePhoton(p, n) has Lo = 0 and is not yet computed
StoreRadiancePhoton(store) ==
    radiancePhotons' = IF store THEN Append(radiancePhotons, 0) ELSE radiancePhotons

\* the flag update of lines 578-579 with "and" for "or"
ScatterAtSurfaceAndFirst(sampled) ==
    IF sampled = "break" \/ nIntersections > BounceCap
      THEN EndPath
      ELSE /\ specularPath' = ((nIntersections = 1 /\ specularPath)
                                /\ sampled = "specular")
           /\ flags' = sampled
           /\ pathHistory' = IF sampled = "specular" /\ pathHistory # "mixed"
                                THEN "specular" ELSE "mixed"
           /\ pc' = "intersect"
           /\ UNCHANGED nIntersections

\* the bounce cap tested one intersection later
ScatterAtSurfaceLateCap(sampled) ==
    IF sampled = "break" \/ nIntersections > BounceCap + 1
      THEN EndPath
      ELSE /\ specularPath' = ((nIntersections = 1 \/ specularPath)
                                /\ sampled = "specular")
           /\ flags' = sampled
           /\ pathHistory' = IF sampled = "specular" /\ pathHistory # "mixed"
                                THEN "specular" ELSE "mixed"
           /\ pc' = "intersect"
           /\ UNCHANGED nIntersections

\* lines 568-580.  sampled: "break" (fr black or pdf 0 at line 570, or the
\* Russian roulette of line 575), "specular" or "diffuse" (the lobe of the
\* sampled direction)
ScatterAtSurface(sampled) ==
    IF sampled = "break" \/ nIntersections > BounceCap
      THEN EndPath
      ELSE /\ specularPath' = ((nIntersections = 1 \/ specularPath)
                                /\ sampled = "specular")
           /\ flags' = sampled
           /\ pathHistory' = IF sampled = "specular" /\ pathHistory # "mixed"
                                THEN "specular" ELSE "mixed"
           /\ pc' = "intersect"
           /\ UNCHANGED nIntersections

\* one surface intersection.  hasNonSpecular: line 501; store: the draw of
\* line 537 succeeds; a BSDF samples a non-specular lobe only if it has a
\* non-specular component
SurfaceHit ==
    /\ pc = "surface"
    /\ \E hasNonSpecular \in BOOLEAN, store \in BOOLEAN,
          sampled \in {"break", "specular", "diffuse"} :
          /\ store => (hasNonSpecular /\ finalGather
                        /\ Len(radiancePhotons) < MaxRadiance)
          /\ sampled = "diffuse" => hasNonSpecular
          /\ DepositPhoton(hasNonSpecular)
          /\ StoreRadiancePhoton(store)
          /\ ScatterAtSurface(sampled)
    /\ UNCHANGED <<lightVars, lookupVars, liVars, configVars, nCalls,
                   blackShot, alreadyPreprocessed, nshot, aborted,
                   volumePhotons, rpIndex, volumeDone, nVolumePaths,
                   nDirectPaths, volumeMap, radianceMap, directMap>>

(***************************************************************************)
(* After the loop, lines 586-618.                                          *)
(***************************************************************************)
\* lines 589-591
BuildDirectMap ==
    /\ pc = "post"
    /\ directMap' = KdTree(directPhotons)
    /\ nDirectPaths' = nshot
    /\ rpIndex' = 1
    /\ pc' = IF finalGather THEN "radiance" ELSE "returned"
    /\ UNCHANGED <<lightVars, lookupVars, liVars, configVars, nCalls,
                   blackShot, alreadyPreprocessed, nshot, aborted, countVars,
                   radiancePhotons, doneVars, nCausticPaths, nIndirectPaths,
                   nVolumePaths, causticMap, indirectMap, volumeMap,
                   radianceMap, walkVars>>

\* lines 593-614: one iteration, radiancePhotons[i].Lo is computed
ComputeRadiance ==
    /\ pc = "radiance"
    /\ rpIndex <= Len(radiancePhotons)
    /\ radiancePhotons' = [radiancePhotons EXCEPT ![rpIndex] = @ + 1]
    /\ rpIndex' = rpIndex + 1
    /\ UNCHANGED <<lightVars, lookupVars, liVars, configVars, nCalls,
                   blackShot, alreadyPreprocessed, pc, nshot, aborted,
                   countVars, doneVars, pathsVars, mapVars, walkVars>>

\* the radiance map built without waiting for the loop of line 593
BuildRadianceMapEarly ==
    /\ pc = "radiance"
    /\ radianceMap' = KdTree(Len(radiancePhotons))
    /\ pc' = "returned"
    /\ UNCHANGED <<lightVars, lookupVars, liVars, configVars, nCalls,
                   blackShot, alreadyPreprocessed, nshot, aborted, countVars,
                   radiancePhotons, rpIndex, doneVars, pathsVars, causticMap,
                   indirectMap, volumeMap, directMap, walkVars>>

\* lines 593, 615-618: the loop is over, the radiance map is built
BuildRadianceMap ==
    /\ pc = "radiance"
    /\ rpIndex > Len(radiancePhotons)
    /\ radianceMap' = KdTree(Len(radiancePhotons))
    /\ pc' = "returned"
    /\ UNCHANGED <<lightVars, lookupVars, liVars, configVars, nCalls,
                   blackShot, alreadyPreprocessed, nshot, aborted, countVars,
                   radiancePhotons, rpIndex, doneVars, pathsVars, causticMap,
                   indirectMap, volumeMap, directMap, walkVars>>

Next ==
    \/ PreprocessFirst
    \/ PreprocessAgain
    \/ LoopExit
    \/ StallAbort
    \/ ShotNoEmission
    \/ ShotEmit
    \/ IntersectHit
    \/ IntersectMiss
    \/ TracePass
    \/ TraceInteract
    \/ TraceAbsorb
    \/ TraceScatter
    \/ TraceExitHit
    \/ TraceExitMiss
    \/ SurfaceHit
    \/ BuildDirectMap
    \/ ComputeRadiance
    \/ BuildRadianceMap

Spec == Init /\ [][Next]_vars

\* the pass keeps running, whatever the random draws
RunSpec == Spec /\ WF_vars(Next)

\* a step other than one more medium interaction of the walk
Progress == Next /\ pc' # "interact" /\ ~(pc = "interact" /\ pc' = "march")

\* the pass keeps running and the draws let every walk leave the medium
FairSpec == Spec /\ WF_vars(Progress)

(***************************************************************************)
(* The three categories with a target, as records of their state.          *)
(***************************************************************************)
Caustic == [target |-> nCausticPhotons, stored |-> causticPhotons,
            done |-> causticDone, paths |-> nCausticPaths, map |-> causticMap]
Indirect == [target |-> nIndirectPhotons, stored |-> indirectPhotons,
             done |-> indirectDone, paths |-> nIndirectPaths, map |-> indirectMap]
Volume == [target |-> nVolumePhotons, stored |-> volumePhotons,
           done |-> volumeDone, paths |-> nVolumePaths, map |-> volumeMap]
Categories == {Caustic, Indirect, Volume}

\* the loop of line 441 has been entered
LoopEntered == pc # "idle" /\ nLights > 0
\* the loop of line 441 has ended by its condition (not by the return of line 458)
LoopEndedNormally == LoopEntered /\ ~aborted /\ pc \in {"post", "radiance", "returned"}

TypeOK ==
    /\ pc \in {"idle", "loop", "intersect", "trace", "interact", "march", "surface", "post",
               "radiance", "returned"}
    /\ nshot \in 0..ShotCap
    /\ \A c \in Categories : c.stored \in 0..(MaxTarget + 1)
    /\ directPhotons \in 0..ShotCap
    /\ Len(radiancePhotons) <= MaxRadiance
    /\ nIntersections \in 0..(BounceCap + 1)
    /\ nCalls \in 0..MaxCalls
    /\ blackShot \in BOOLEAN

\* the guard nshot < ShotCap never stops the code's loop
ShotsBounded == nshot < ShotCap

(***************************************************************************)
(* C1: when the shooting loop ends normally, every category with a nonzero *)
(* target has stored exactly its target and its map exists; a category's   *)
(* stored count never exceeds its target.                                  *)
(***************************************************************************)
C1_TargetsMet ==
    /\ \A c \in Categories : c.stored <= c.target
    /\ LoopEndedNormally =>
         \A c \in Categories :
            c.target # 0 => (c.stored = c.target /\ c.map = KdTree(c.target))

C1_Witness ==
    /\ pc = "post"
    /\ nCausticPhotons = MaxTarget /\ nIndirectPhotons = MaxTarget
    /\ nVolumePhotons = MaxTarget
    /\ causticPhotons = MaxTarget /\ indirectPhotons = MaxTarget
    /\ volumePhotons = MaxTarget

C4_NoMapAfterAbort ==
    aborted => (causticMap = NULL /\ indirectMap = NULL /\ volumeMap = NULL
                 /\ radianceMap = NULL)

(***************************************************************************)
(* C7: a category's map is constructed only at the step where its stored   *)
(* count reaches the target, and at that step; the step records the shot   *)
(* number as the path count and sets the completion flag; once the flag is *)
(* set, flag, map and path count never change.                             *)
(***************************************************************************)
C7Cat(target, stored, stored2, done, done2, paths, paths2, map, map2, shot2) ==
    /\ map2 # map =>
          /\ map = NULL /\ map2 = KdTree(target)
          /\ stored = target - 1 /\ stored2 = target
          /\ ~done /\ done2
          /\ paths2 = shot2
    /\ (stored # target /\ stored2 = target) => map2 # map
    /\ (LoopEntered /\ done) => (done2 /\ map2 = map /\ paths2 = paths)
    /\ ~LoopEntered => (map2 = map /\ paths2 = paths)

C7Step ==
    /\ C7Cat(nCausticPhotons, causticPhotons, causticPhotons', causticDone,
             causticDone', nCausticPaths, nCausticPaths', causticMap, causticMap',
             nshot')
    /\ C7Cat(nIndirectPhotons, indirectPhotons, indirectPhotons', indirectDone,
             indirectDone', nIndirectPaths, nIndirectPaths', indirectMap,
             indirectMap', nshot')
    /\ C7Cat(nVolumePhotons, volumePhotons, volumePhotons', volumeDone,
             volumeDone', nVolumePaths, nVolumePaths', volumeMap, volumeMap',
             nshot')

C7_MapBuiltOnce == [][C7Step]_vars

C7_Witness ==
    /\ pc = "returned" /\ ~aborted
    /\ causticMap = KdTree(MaxTarget) /\ indirectMap = KdTree(MaxTarget)
    /\ volumeMap = KdTree(MaxTarget)
    /\ nVolumePaths > 0
    /\ nCausticPaths # nVolumePaths /\ nIndirectPaths # nCausticPaths

(***************************************************************************)
(* C8: a category whose target is zero is complete from the start of the   *)
(* loop, never stores a photon, never gets a map, never keeps the loop     *)
(* running and never makes the stall test succeed.                         *)
(***************************************************************************)
C8_ZeroTarget ==
    /\ \A c \in Categories :
          c.target = 0 =>
             /\ c.stored = 0
             /\ c.map = NULL
             /\ LoopEntered => c.done
             /\ \A shot \in 0..ShotCap : ~unsuccessful(c.target, c.stored, shot)
    /\ (LoopEntered /\ StillShooting) => \E c \in Categories : c.target # 0 /\ ~c.done
    /\ aborted => \E c \in Categories :
                     c.target # 0 /\ unsuccessful(c.target, c.stored, nshot)

C8_Witness ==
    /\ pc = "post"
    /\ nCausticPhotons = 0 /\ nVolumePhotons = 0 /\ nIndirectPhotons = MaxTarget
    /\ nshot > StallShots

(***************************************************************************)
(* C9: with final gather, every radiance-photon candidate's radiance is    *)
(* computed exactly once, only after the loop has ended with every         *)
(* category complete; the radiance map is built only when all are          *)
(* computed; nothing is written once Surface_Preprocess has returned.      *)
(***************************************************************************)
Computed(i) == radiancePhotons[i]

C9Inv ==
    /\ \A i \in 1..Len(radiancePhotons) :
          /\ Computed(i) <= 1
          /\ Computed(i) > 0 =>
                /\ LoopEndedNormally /\ pc \in {"radiance", "returned"}
                /\ ~StillShooting
                /\ finalGather
    /\ radianceMap # NULL =>
          /\ finalGather /\ LoopEndedNormally
          /\ radianceMap = KdTree(Len(radiancePhotons))
          /\ \A i \in 1..Len(radiancePhotons) : Computed(i) = 1
    /\ (pc = "returned" /\ finalGather /\ LoopEndedNormally) =>
          /\ radianceMap # NULL
          /\ \A i \in 1..Len(radiancePhotons) : Computed(i) = 1

C9Step ==
    pc = "returned" => (radiancePhotons' = radiancePhotons /\ radianceMap' = radianceMap)

C9_RadianceOnce == []C9Inv /\ [][C9Step]_vars

C9_Witness ==
    /\ pc = "returned" /\ finalGather
    /\ Len(radiancePhotons) = MaxRadiance
    /\ \A i \in 1..Len(radiancePhotons) : Computed(i) = 1
    /\ radianceMap = KdTree(MaxRadiance)

(***************************************************************************)
(* C11: photon shooting runs at most once.  Only the first Preprocess call *)
(* shoots; every later call, through either wrapper, returns without       *)
(* changing a photon set, a map, a path count or a flag.                   *)
(***************************************************************************)
C11Step ==
    (nCalls >= 1 /\ nCalls' = nCalls + 1) =>
        /\ pc = "returned" /\ pc' = "returned"
        /\ UNCHANGED <<countVars, radiancePhotons, rpIndex, mapVars, pathsVars,
                       doneVars, alreadyPreprocessed, aborted, nshot>>

C11_ShootOnce ==
    /\ [](pc \notin {"idle", "returned"} => nCalls = 1)
    /\ [][C11Step]_vars

\* Preprocess was called again after a pass that built the three maps
C11_Witness ==
    /\ nCalls = MaxCalls /\ pc = "returned" /\ ~aborted
    /\ causticMap # NULL /\ indirectMap # NULL /\ volumeMap # NULL
    /\ directMap = KdTree(directPhotons) /\ directPhotons > 0

\* photons a step adds to a set
Added(before, after) == after - before

(***************************************************************************)
(* C12: a surface hit deposits into at most one set: the direct set only   *)
(* if the hit is the path's first scattering event, the caustic set only   *)
(* if every earlier scattering event of the path (surface bounce or medium *)
(* scattering) was a specular surface bounce, the indirect set otherwise;  *)
(* nothing is deposited except at a surface hit.                           *)
(***************************************************************************)
C12Step ==
    LET direct == Added(directPhotons, directPhotons')
        caustic == Added(causticPhotons, causticPhotons')
        indirect == Added(indirectPhotons, indirectPhotons')
    IN  /\ direct \in 0..1 /\ caustic \in 0..1 /\ indirect \in 0..1
        /\ direct + caustic + indirect <= 1
        /\ direct + caustic + indirect = 1 => pc = "surface"
        /\ direct = 1 => pathHistory = "none"
        /\ caustic = 1 => pathHistory = "specular"
        /\ indirect = 1 => pathHistory = "mixed"
        \* a hit that samples a non-specular lobe has a non-specular component
        /\ (pc = "surface" /\ flags' = "diffuse" /\ pathHistory = "none")
              => direct = 1

C12_OneSetByHistory == [][C12Step]_vars

\* the same with the medium left out of the history, as the code decides:
\* direct at the first surface intersection, caustic after specular bounces only
C12_BySurfaceBounces ==
    [][LET direct == Added(directPhotons, directPhotons')
           caustic == Added(causticPhotons, causticPhotons')
           indirect == Added(indirectPhotons, indirectPhotons')
       IN  /\ direct + caustic + indirect <= 1
           /\ direct + caustic + indirect = 1 => pc = "surface"
           /\ direct = 1 => nIntersections = 1
           /\ caustic = 1 => (nIntersections > 1 /\ specularPath)
           /\ indirect = 1 => (nIntersections > 1 /\ ~specularPath)]_vars

(***************************************************************************)
(* C13 as stated: the specular-only flag is true at path start, and a      *)
(* surface bounce sets it to (previous flag and first bounce) and (the     *)
(* sampled direction was specular).                                        *)
(***************************************************************************)
PathStart == pc = "intersect" /\ nIntersections = 0
Bounce == pc = "surface" /\ pc' = "intersect"

C13_Original ==
    /\ [](PathStart => specularPath)
    /\ [][Bounce => specularPath' = ((specularPath /\ nIntersections = 1)
                                       /\ flags' = "specular")]_vars

(***************************************************************************)
(* C13 amended: the specular-only flag is false at path start, and a       *)
(* surface bounce sets it to (first bounce or previous flag) and (the      *)
(* sampled direction was specular); nothing else changes it during a path. *)
(***************************************************************************)
C13Step ==
    /\ Bounce => specularPath' = ((nIntersections = 1 \/ specularPath)
                                    /\ flags' = "specular")
    /\ specularPath' # specularPath => (Bounce \/ pc' = "loop")

C13_FlagUpdate ==
    /\ [](PathStart => ~specularPath)
    /\ [][C13Step]_vars

\* two specular bounces were made, the flag is still set
C13_Witness ==
    /\ pc = "intersect" /\ nIntersections = 2
    /\ flags = "specular" /\ specularPath

(***************************************************************************)
(* C14: every light path terminates, whatever the random draws: a walk     *)
(* that has started reaches its end.  (Checked under RunSpec: the pass     *)
(* keeps running, nothing is assumed of the draws.)                        *)
(***************************************************************************)
InWalk == pc \in {"intersect", "trace", "interact", "march", "surface"}

C14_PathEnds == InWalk ~> pc = "loop"

(***************************************************************************)
(* C19: a volume photon is stored at a medium interaction, and at every    *)
(* one while the volume category is not complete, before the draw that     *)
(* absorbs or scatters; an absorbed interaction ends the path, a scattered *)
(* one continues it; no volume photon is stored once the target is reached.*)
(***************************************************************************)
C19Step ==
    /\ volumePhotons' # volumePhotons =>
          /\ pc \in {"trace", "march"} /\ pc' = "interact"
          /\ ~volumeDone
    /\ pc' = "interact" =>
          /\ pc \in {"trace", "march"}
          /\ volumePhotons' = IF volumeDone THEN volumePhotons ELSE volumePhotons + 1
    /\ pc = "interact" =>
          /\ pc' \in {"loop", "march"}
          /\ pc' = "loop" => nIntersections' = 0
          /\ pc' = "march" => nIntersections' = nIntersections
    /\ (LoopEntered /\ volumePhotons >= nVolumePhotons) => volumePhotons' = volumePhotons

C19_VolumeStore == [][C19Step]_vars

\* an interaction on a shot after the one that completed the volume category
C19_Witness ==
    /\ pc = "interact"
    /\ nVolumePhotons = MaxTarget /\ volumePhotons = MaxTarget /\ volumeDone
    /\ nVolumePaths < nshot

(***************************************************************************)
(* C15 as stated: the surface intersections processed along one light path *)
(* (deposit at lines 503-536, scattering sample at lines 568-569) never    *)
(* number more than the bounce cap.  At pc = "surface" nIntersections is   *)
(* the number of the intersection being processed.                         *)
(***************************************************************************)
C15_Original == [][pc = "surface" => nIntersections <= BounceCap]_vars

(***************************************************************************)
(* C15 amended: one light path processes at most BounceCap + 1 surface     *)
(* intersections: the test of line 575 comes after the deposit and the     *)
(* sample and is a strict comparison, so the intersection numbered         *)
(* BounceCap + 1 is processed in full and is the last one.                 *)
(***************************************************************************)
C15Step ==
    /\ pc = "surface" =>
          /\ nIntersections \in 1..(BounceCap + 1)
          /\ nIntersections = BounceCap + 1 => pc' = "loop"
    /\ nIntersections' # nIntersections =>
          \/ nIntersections' = nIntersections + 1 /\ pc = "intersect"
          \/ nIntersections' = 0 /\ pc' = "loop"

C15_CapPlusOne == [][C15Step]_vars

\* the intersection after the cap is at hand, every bounce before it sampled
\* a specular lobe
C15_Witness ==
    pc = "surface" /\ nIntersections = BounceCap + 1 /\ specularPath

(***************************************************************************)
(* C16: the stall abort never fires during the first StallShots shots; on  *)
(* a later shot it fires exactly when some category short of its target    *)
(* has stored fewer photons than the shot number divided by StallDivisor   *)
(* (the integer quotient, as nshot/1024 at line 130); a category that has  *)
(* reached its target never triggers it.  nshot' is the number of the shot *)
(* being taken.                                                            *)
(***************************************************************************)
C16Step ==
    /\ aborted' => nshot' > StallShots
    /\ aborted' # aborted => nshot' = nshot + 1
    /\ nshot' = nshot + 1 =>
          (aborted' <=>
             /\ nshot' > StallShots
             /\ \E c \in Categories :
                   c.stored < c.target /\ c.stored < nshot' \div StallDivisor)
    /\ (\A c \in Categories : c.stored >= c.target) => ~aborted'

C16_StallTest == [][C16Step]_vars

\* the abort fired on the second shot after StallShots, with one category
\* complete and another that stored a photon but too few
C16_Witness ==
    /\ aborted /\ nshot = StallShots + 2
    /\ nCausticPhotons > 0 /\ causticDone
    /\ indirectPhotons > 0 /\ ~indirectDone

(***************************************************************************)
(*                    The bounded neighbour collector                      *)
(*                                                                         *)
(* One lookup: a PhotonProcess with its buffer of nLookup ClosePhoton      *)
(* slots (photons[0 .. nLookup-1], allocated by alloca at lines 170, 219,  *)
(* 653, 925) and the caller's float maxDistSquared (md2) that operator()   *)
(* receives by reference.  A photon is named by its address, a positive    *)
(* integer.                                                                *)
(***************************************************************************)
\* the shooting pass is not running: the preprocess variables rest
PrepIdle ==
    /\ PrepInit
    /\ nCausticPhotons = 0 /\ nIndirectPhotons = 0 /\ nVolumePhotons = 0
    /\ ~finalGather /\ nLights = 0

\* lines 78-90
ClosePhoton(p, d) == [photon |-> p, distanceSquared |-> d]

\* a slot of the buffer that was never written
Uninit == ClosePhoton(0, 0)

\* ClosePhoton::operator<, lines 84-87
Less(a, b) ==
    IF a.distanceSquared = b.distanceSquared
      THEN a.photon < b.photon
      ELSE a.distanceSquared < b.distanceSquared

(***************************************************************************)
(* std::make_heap, std::pop_heap, std::push_heap on the range              *)
(* [&photons[0], &photons[len]), as libstdc++ computes them.               *)
(***************************************************************************)
RECURSIVE PushHeapAt(_, _, _, _)
\* __push_heap: move value up from the hole while its parent is less
PushHeapAt(a, hole, top, value) ==
    LET parent == (hole - 1) \div 2 IN
    IF hole > top /\ Less(a[parent], value)
      THEN PushHeapAt([a EXCEPT ![hole] = a[parent]], parent, top, value)
      ELSE [a EXCEPT ![hole] = value]

RECURSIVE SiftHole(_, _, _, _)
\* the while loop of __adjust_heap: move the larger child up into the hole;
\* the result is the array, the hole and secondChild after the loop
SiftHole(a, hole, second, len) ==
    IF second < (len - 1) \div 2
      THEN LET right == 2 * (second + 1)
               child == IF Less(a[right], a[right - 1]) THEN right - 1 ELSE right
           IN  SiftHole([a EXCEPT ![hole] = a[child]], child, child, len)
      ELSE <<a, hole, second>>

\* __adjust_heap
AdjustHeap(a, hole, len, value) ==
    LET r == SiftHole(a, hole, hole, len)
        a1 == r[1]
        hole1 == r[2]
        second == r[3]
        lone == len % 2 = 0 /\ second = (len - 2) \div 2
        a2 == IF lone THEN [a1 EXCEPT ![hole1] = a1[2 * (second + 1) - 1]] ELSE a1
        hole2 == IF lone THEN 2 * (second + 1) - 1 ELSE hole1
    IN  PushHeapAt(a2, hole2, hole, value)

\* std::pop_heap: the largest goes to slot len-1, the rest stays a heap
PopHeap(a, len) ==
    IF len > 1
      THEN AdjustHeap([a EXCEPT ![len - 1] = a[0]], 0, len - 1, a[len - 1])
      ELSE a

\* std::push_heap: slot len-1 joins the heap of the slots before it
PushHeap(a, len) == PushHeapAt(a, len - 1, 0, a[len - 1])

RECURSIVE MakeHeapFrom(_, _, _)
MakeHeapFrom(a, parent, len) ==
    LET a1 == AdjustHeap(a, parent, len, a[parent]) IN
    IF parent = 0 THEN a1 ELSE MakeHeapFrom(a1, parent - 1, len)

\* std::make_heap
MakeHeap(a, len) == IF len < 2 THEN a ELSE MakeHeapFrom(a, (len - 2) \div 2, len)

\* a max-heap by operator<
IsHeap(a, len) == \A i \in 1..(len - 1) : ~Less(a[(i - 1) \div 2], a[i])

(***************************************************************************)
(* PhotonProcess::operator(), lines 182-203.  With nLookup = 0 the else    *)
(* branch runs on an empty range: photons[nLookup-1] is a write outside    *)
(* the buffer and photons[0] a read outside it (any value).                *)
(***************************************************************************)
\* the else branch without its pop_heap
PhotonProcessNoPop(p, d) ==
    IF foundPhotons < nLookup
      THEN LET added == [photons EXCEPT ![foundPhotons] = ClosePhoton(p, d)] IN
           /\ foundPhotons' = foundPhotons + 1
           /\ IF foundPhotons + 1 = nLookup
                THEN /\ photons' = MakeHeap(added, nLookup)
                     /\ md2' = photons'[0].distanceSquared
                ELSE /\ photons' = added
                     /\ md2' = md2
           /\ UNCHANGED wroteOutside
    ELSE IF nLookup = 0
      THEN /\ wroteOutside' = TRUE
           /\ md2' \in 0..(MaxDist2 + 1)
           /\ UNCHANGED <<photons, foundPhotons>>
    ELSE /\ photons' = PushHeap([photons EXCEPT ![nLookup - 1] = ClosePhoton(p, d)],
                                nLookup)
         /\ md2' = photons'[0].distanceSquared
         /\ UNCHANGED <<foundPhotons, wroteOutside>>

PhotonProcess(p, d) ==
    IF foundPhotons < nLookup
      THEN \* lines 188-193
           LET added == [photons EXCEPT ![foundPhotons] = ClosePhoton(p, d)] IN
           /\ foundPhotons' = foundPhotons + 1
           /\ IF foundPhotons + 1 = nLookup
                THEN /\ photons' = MakeHeap(added, nLookup)
                     /\ md2' = photons'[0].distanceSquared
                ELSE /\ photons' = added
                     /\ md2' = md2
           /\ UNCHANGED wroteOutside
    ELSE IF nLookup = 0
      THEN \* lines 198-201 on an empty range
           /\ wroteOutside' = TRUE
           /\ md2' \in 0..(MaxDist2 + 1)
           /\ UNCHANGED <<photons, foundPhotons>>
    ELSE \* lines 198-201
         LET popped == PopHeap(photons, nLookup)
             placed == [popped EXCEPT ![nLookup - 1] = ClosePhoton(p, d)]
         IN  /\ photons' = PushHeap(placed, nLookup)
             /\ md2' = photons'[0].distanceSquared
             /\ UNCHANGED <<foundPhotons, wroteOutside>>

\* the index of the slot that operator() assigns the candidate to: line 189
\* (photons[foundPhotons++]) or line 199 (photons[nLookup-1])
SlotWritten == IF foundPhotons < nLookup THEN foundPhotons ELSE nLookup - 1

\* the photons not yet handed to the collector
Unseen == (1..MaxPhotons) \ {c.photon : c \in seen}

\* one call of operator() on a photon not passed before
PhotonProcessCall ==
    \E p \in Unseen, d \in 0..MaxDist2 :
       /\ PhotonProcess(p, d)
       /\ seen' = seen \cup {ClosePhoton(p, d)}
       /\ withinBound' = (withinBound /\ d < md2)
       /\ UNCHANGED <<configVars, prepVars, nLookup, photon, liVars,
                      lightVars>>

\* a PhotonProcess as lines 92-97 and the alloca leave it, and the caller's md2
LookupInit ==
    /\ PrepIdle
    /\ nLookup \in 0..MaxLookup
    /\ photons = [i \in 0..(nLookup - 1) |-> Uninit]
    /\ foundPhotons = 0
    /\ md2 \in 1..(MaxDist2 + 1)
    /\ seen = {}
    /\ withinBound = TRUE
    /\ wroteOutside = FALSE
    /\ photon = 0
    /\ LiIdle
    /\ LightIdle

LookupNext == PhotonProcessCall

LookupSpec == LookupInit /\ [][LookupNext]_vars

\* the candidates the collector holds
Held == {photons[i] : i \in 0..(foundPhotons - 1)}

Min(a, b) == IF a < b THEN a ELSE b

\* H is a choice of the k nearest of S (all of S when S has fewer than k)
KNearest(H, S, k) ==
    /\ H \subseteq S
    /\ Cardinality(H) = Min(k, Cardinality(S))
    /\ \A h \in H, s \in S \ H : h.distanceSquared <= s.distanceSquared

(***************************************************************************)
(* C2 as stated: after any sequence of calls of operator(), the candidates *)
(* held are the nLookup nearest of all candidates passed.                  *)
(***************************************************************************)
C2_Original == KNearest(Held, seen, nLookup)

(***************************************************************************)
(* C2 amended: the candidates held are the nLookup nearest of all passed,  *)
(* provided every candidate was closer than the search bound               *)
(* (maxDistSquared) at the time it was passed.                             *)
(***************************************************************************)
C2_KNearestWithinBound == withinBound => KNearest(Held, seen, nLookup)

C2_Witness ==
    /\ withinBound
    /\ nLookup = MaxLookup
    /\ Cardinality(seen) = MaxPhotons
    /\ \E c \in seen \ Held : c.distanceSquared > 0

\* h is a farthest of the candidates H, by operator<
Farthest(h, H) == h \in H /\ \A g \in H : ~Less(h, g)

(***************************************************************************)
(* C17: the collector never holds more than nLookup candidates; once it    *)
(* holds nLookup, a further insertion removes the farthest candidate held  *)
(* and leaves the search bound at the largest squared distance among the   *)
(* candidates then held; the bound never grows during a lookup.  A lookup  *)
(* passes only candidates closer than the bound (withinBound).             *)
(***************************************************************************)
C17Step ==
    withinBound' =>
       /\ foundPhotons' <= nLookup
       /\ md2' <= md2
       /\ (foundPhotons = nLookup /\ seen' # seen) =>
             /\ \E far \in Held :
                   /\ Farthest(far, Held)
                   /\ Held' = (Held \ {far}) \cup (seen' \ seen)
             /\ \E h \in Held' : h.distanceSquared = md2'
             /\ \A h \in Held' : h.distanceSquared <= md2'

C17_BoundNeverGrows == [][C17Step]_vars

\* the same, leaving out the collector without a slot
C17_WithSlots == [][nLookup > 0 => C17Step]_vars

(***************************************************************************)
(* C23: during a lookup the collector writes only to slots 0 .. k-1 of its *)
(* k-slot buffer, for every lookup count k >= 0 and any number of          *)
(* candidates: at every call of operator() the slot the candidate is       *)
(* assigned to is one of the buffer's, and the buffer keeps its k slots.   *)
(***************************************************************************)
C23Step ==
    seen' # seen =>
       /\ SlotWritten \in 0..(nLookup - 1)
       /\ DOMAIN photons' = 0..(nLookup - 1)
       /\ ~wroteOutside'

C23_WritesInBuffer == [][C23Step]_vars

\* the same, leaving out the collector without a slot
C23_WithSlots == [][nLookup > 0 => C23Step]_vars

\* a full buffer of the largest size has replaced a candidate
C23_FullBufferReplaced ==
    /\ nLookup = MaxLookup /\ foundPhotons = nLookup
    /\ Cardinality(seen) > nLookup
    /\ ~wroteOutside


(***************************************************************************)
(*                       The radiance-photon lookup                        *)
(*                                                                         *)
(* One radianceMap->Lookup(p, proc, md2) of lines 690-694 (and 742-746):   *)
(* a RadiancePhotonProcess (lines 45-61) and the caller's md2, INFINITY at *)
(* the start.  A radiance photon passed to operator() is its address, its  *)
(* squared distance from the lookup point and the sign of Dot(rp.n, n).    *)
(***************************************************************************)
RadianceCandidate(p, d, dot) == [photon |-> p, distanceSquared |-> d, dot |-> dot]

\* operator() accepting a normal at a right angle to the query normal
RadiancePhotonProcessNonNegative(p, d, dot) ==
    IF dot >= 0
      THEN /\ photon' = p
           /\ md2' = d
      ELSE UNCHANGED <<photon, md2>>

\* RadiancePhotonProcess::operator(), lines 51-57
RadiancePhotonProcess(p, d, dot) ==
    IF dot > 0
      THEN /\ photon' = p
           /\ md2' = d
      ELSE UNCHANGED <<photon, md2>>

\* one call of operator() on a radiance photon not passed before
RadiancePhotonProcessCall ==
    \E p \in Unseen, d \in 0..MaxDist2, dot \in {-1, 0, 1} :
       /\ RadiancePhotonProcess(p, d, dot)
       /\ seen' = seen \cup {RadianceCandidate(p, d, dot)}
       /\ withinBound' = (withinBound /\ d < md2)
       /\ UNCHANGED <<lightVars, configVars, prepVars, nLookup, photons,
                      foundPhotons, wroteOutside, liVars>>

\* lines 47-50 (photon = NULL) and line 691 (md2 = INFINITY, modelled by a
\* value above every distance)
RadianceLookupInit ==
    /\ PrepIdle
    /\ photon = 0
    /\ md2 = MaxDist2 + 1
    /\ seen = {}
    /\ withinBound = TRUE
    \* no PhotonProcess is in use
    /\ nLookup = 1
    /\ photons = <<>>
    /\ foundPhotons = 0
    /\ wroteOutside = FALSE
    /\ LiIdle
    /\ LightIdle

RadianceLookupNext == RadiancePhotonProcessCall

RadianceLookupSpec == RadianceLookupInit /\ [][RadianceLookupNext]_vars

\* the candidate the lookup ends holding is a nearest of the candidates A,
\* and none is held when A is empty
HoldsNearestOf(A) ==
    IF A = {}
      THEN photon = 0
      ELSE \E a \in A :
              /\ a.photon = photon
              /\ \A b \in A : a.distanceSquared <= b.distanceSquared

(***************************************************************************)
(* C18 as stated: the radiance-photon lookup holds a nearest of the        *)
(* candidates whose normal has a non-negative dot product with the query   *)
(* normal, and none when no candidate has one.  (Every candidate being     *)
(* closer than the bound when it was passed, as in a lookup.)              *)
(***************************************************************************)
C18_Original ==
    withinBound => HoldsNearestOf({c \in seen : c.dot >= 0})

(***************************************************************************)
(* C18 amended: the radiance-photon lookup holds a nearest of the          *)
(* candidates whose normal has a strictly positive dot product with the    *)
(* query normal, and none when no candidate has one; a candidate whose     *)
(* normal is at a right angle to the query normal is rejected.             *)
(***************************************************************************)
C18_NearestFacing ==
    withinBound => HoldsNearestOf({c \in seen : c.dot > 0})

\* every photon was passed; a facing one is held, a nearer one at a right
\* angle and one facing away were rejected
C18_Witness ==
    /\ withinBound
    /\ Cardinality(seen) = MaxPhotons
    /\ \E a, b, c \in seen :
          /\ a.photon = photon /\ a.dot = 1
          /\ b.dot = 0 /\ b.distanceSquared < a.distanceSquared
          /\ c.dot = -1

(***************************************************************************)
(*                               Shading                                   *)
(*                                                                         *)
(* Surface_Li and Volume_Li after Surface_Preprocess has returned.  Of the *)
(* preprocess this machine keeps what the two functions read: the four map *)
(* pointers and finalGather.  A Surface_Li call in progress is a frame     *)
(* [entry, at, path]: specularDepth when it was entered, the place it has  *)
(* reached (or resumes at, when it waits for a nested call), and the       *)
(* return path it is on.                                                   *)
(***************************************************************************)
\* line 651
nIndirSamplePhotons == 50

\* the value after the largest finite float: INFINITY
Inf == FloatMax + 1

\* searchDist2 *= 2.f, line 660
Double(x) == IF 2 * x > FloatMax THEN Inf ELSE 2 * x

\* the maps a preprocess can leave behind: any of the three can be absent
\* (zero target, no light, stall abort) or built from its target number of
\* photons; the radiance map exists only after a complete pass with final
\* gather, built from the candidates stored (possibly none)
MapOf(sizes) == {NULL} \cup {KdTree(n) : n \in sizes}

\* the indirect map is read against nIndirSamplePhotons, so its sizes
\* straddle that count
IndirectSizes == {1, nIndirSamplePhotons - 1, nIndirSamplePhotons}

LiInit ==
    /\ LightIdle
    \* what Surface_Preprocess left
    /\ nCalls = 1
    /\ alreadyPreprocessed = TRUE
    /\ pc = "returned"
    /\ finalGather \in BOOLEAN
    /\ causticMap \in MapOf(1..MaxTarget)
    /\ indirectMap \in MapOf(IndirectSizes)
    /\ volumeMap \in MapOf(1..MaxTarget)
    /\ radianceMap \in MapOf(0..MaxRadiance)
    /\ radianceMap # NULL => finalGather
    /\ directMap = NULL
    \* the rest of the preprocess state is not read by shading
    /\ nCausticPhotons = 0 /\ nIndirectPhotons = 0 /\ nVolumePhotons = 0
    /\ nLights = 1
    /\ nshot = 0
    /\ aborted = FALSE
    /\ blackShot = FALSE
    /\ causticPhotons = 0 /\ indirectPhotons = 0
    /\ directPhotons = 0 /\ volumePhotons = 0
    /\ radiancePhotons = <<>>
    /\ rpIndex = 0
    /\ causticDone = FALSE /\ indirectDone = FALSE /\ volumeDone = FALSE
    /\ nCausticPaths = 0 /\ nIndirectPaths = 0
    /\ nVolumePaths = 0 /\ nDirectPaths = 0
    /\ nIntersections = 0
    /\ specularPath = FALSE
    /\ pathHistory = "none"
    /\ flags = "none"
    \* no lookup has run; nLookup is the configured nused
    /\ nLookup \in 1..MaxLookup
    /\ photons = <<>>
    /\ foundPhotons = 0
    /\ md2 = 0
    /\ seen = {}
    /\ withinBound = TRUE
    /\ wroteOutside = FALSE
    /\ photon = 0
    \* Surface_Init, lines 270-274
    /\ maxSpecularDepth \in 0..MaxDepth
    /\ specularDepth = 0
    /\ maxDistSquared \in 0..1
    /\ stack = <<>>
    /\ searchDist2 = 0
    /\ liFault = FALSE
    /\ absentReadZero = TRUE
    /\ fewReadZero = TRUE
    /\ lastReturn = [entry |-> 0, exit |-> 0]

Top == stack[Len(stack)]
At(place) == stack # <<>> /\ ~liFault /\ Top.at = place
Goto(place) == stack' = [stack EXCEPT ![Len(stack)].at = place]
Frame(depth) == [entry |-> depth, at |-> "enter", path |-> "plain"]

\* what the Li actions leave alone
liFrame == <<lightVars, configVars, prepVars, nLookup, photons, md2, seen, withinBound,
             wroteOutside, photon, maxSpecularDepth, maxDistSquared>>

\* a read of the map by a lookup of k photons contributes result
Read(map, k, result) ==
    /\ absentReadZero' = (absentReadZero
                           /\ ((map = NULL \/ map.n = 0) => result = "zero"))
    /\ fewReadZero' = (fewReadZero /\ (map.n < k => result = "zero"))

\* how many photons a lookup of radius2 hands to a collector of k slots:
\* none within radius 0, all of them within INFINITY, and in between none,
\* one or all, as the photons lie
FoundWithin(map, radius2, k) ==
    IF radius2 = 0 THEN {0}
    ELSE IF radius2 = Inf THEN {Min(map.n, k)}
    ELSE {0, 1, Min(map.n, k)}

\* Surface_LPhoton, lines 204-262: what a read of the map can contribute.
\* nonSpecular: bsdf->NumComponents(nonSpecular) > 0; the lookup finds up to
\* nLookup of the map's photons within maxDistSquared
LPhoton(map, nonSpecular) ==
    IF map = NULL \/ ~nonSpecular
      THEN {"zero"}
      ELSE {IF found = 0 THEN "zero" ELSE "estimate" :
               found \in FoundWithin(map, maxDistSquared, nLookup)}

\* scene->Li from the renderer: the outermost Surface_Li call
LiCall ==
    /\ stack = <<>>
    /\ ~liFault
    /\ stack' = <<Frame(specularDepth)>>
    /\ UNCHANGED <<liFrame, foundPhotons, specularDepth, searchDist2, liFault,
                   readVars, lastReturn>>

\* the return of the innermost call, specularDepth being depth at that point
Return(depth) ==
    /\ stack' = SubSeq(stack, 1, Len(stack) - 1)
    /\ lastReturn' = [entry |-> Top.entry, exit |-> depth]

\* lines 627, 831-838: the ray hits nothing
LiMiss ==
    /\ At("enter")
    /\ Return(specularDepth)
    /\ UNCHANGED <<liFrame, foundPhotons, specularDepth, searchDist2, liFault,
                   readVars>>

\* lines 627-639
LiHit ==
    /\ At("enter")
    /\ Goto("caustic")
    /\ UNCHANGED <<liFrame, foundPhotons, specularDepth, searchDist2, liFault,
                   readVars, lastReturn>>

\* lines 642-644
LiCaustic ==
    /\ At("caustic")
    /\ \E nonSpecular \in BOOLEAN :
          \E result \in LPhoton(causticMap, nonSpecular) :
             Read(causticMap, nLookup, result)
    /\ Goto(IF finalGather THEN "gather" ELSE "indirect")
    /\ UNCHANGED <<liFrame, foundPhotons, specularDepth, searchDist2, liFault,
                   lastReturn>>

\* lines 769-772
LiIndirect ==
    /\ At("indirect")
    /\ \E nonSpecular \in BOOLEAN :
          \E result \in LPhoton(indirectMap, nonSpecular) :
             Read(indirectMap, nLookup, result)
    /\ Goto("specular")
    /\ UNCHANGED <<liFrame, foundPhotons, specularDepth, searchDist2, liFault,
                   lastReturn>>

\* line 649: the surface has no non-specular component
LiGatherSkip ==
    /\ At("gather")
    /\ Goto("specular")
    /\ UNCHANGED <<liFrame, foundPhotons, specularDepth, searchDist2, liFault,
                   readVars, lastReturn>>

\* lines 649-655
LiGatherStart ==
    /\ At("gather")
    /\ foundPhotons' = 0
    /\ searchDist2' = maxDistSquared
    /\ Goto("gatherTest")
    /\ UNCHANGED <<liFrame, specularDepth, liFault, readVars, lastReturn>>

\* line 656
LiGatherTest ==
    /\ At("gatherTest")
    /\ Goto(IF foundPhotons < nIndirSamplePhotons THEN "gatherLookup" ELSE "gatherRays")
    /\ UNCHANGED <<liFrame, foundPhotons, specularDepth, searchDist2, liFault,
                   readVars, lastReturn>>

\* lines 657-660; indirectMap->Lookup on a null pointer faults
LiGatherLookup ==
    /\ At("gatherLookup")
    /\ IF indirectMap = NULL
         THEN /\ liFault' = TRUE
              /\ UNCHANGED <<stack, foundPhotons, searchDist2>>
         ELSE /\ foundPhotons' \in FoundWithin(indirectMap, searchDist2,
                                               nIndirSamplePhotons)
              /\ searchDist2' = Double(searchDist2)
              /\ Goto("gatherTest")
              /\ UNCHANGED liFault
    /\ UNCHANGED <<liFrame, specularDepth, readVars, lastReturn>>

\* lines 662-755: the gather rays; one that hits looks the radiance map up
\* (lines 692, 744), radianceMap->Lookup on a null pointer faults; the
\* lookup finds the nearest radiance photon, or none that faces the normal
LiGatherRays ==
    /\ At("gatherRays")
    /\ \E rayHits \in BOOLEAN :
          IF rayHits /\ radianceMap = NULL
            THEN /\ liFault' = TRUE
                 /\ UNCHANGED <<stack, foundPhotons, searchDist2, readVars>>
            ELSE /\ IF rayHits
                      THEN \E found \in 0..Min(radianceMap.n, 1) :
                              Read(radianceMap, 1,
                                   IF found = 0 THEN "zero" ELSE "estimate")
                      ELSE UNCHANGED readVars
                 /\ foundPhotons' = 0
                 /\ searchDist2' = 0
                 /\ Goto("specular")
                 /\ UNCHANGED liFault
    /\ UNCHANGED <<liFrame, specularDepth, lastReturn>>

\* line 773, returning at once when the cap is reached
LiSpecularTestNoRestore ==
    /\ At("specular")
    /\ specularDepth' = specularDepth + 1
    /\ IF specularDepth < maxSpecularDepth
         THEN /\ Goto("reflect")
              /\ UNCHANGED lastReturn
         ELSE Return(specularDepth + 1)
    /\ UNCHANGED <<liFrame, foundPhotons, searchDist2, liFault, readVars>>

\* line 773 with <= for <
LiSpecularTestInclusive ==
    /\ At("specular")
    /\ specularDepth' = specularDepth + 1
    /\ IF specularDepth <= maxSpecularDepth
         THEN Goto("reflect")
         ELSE stack' = [stack EXCEPT ![Len(stack)].at = "leave",
                                     ![Len(stack)].path = "capped"]
    /\ UNCHANGED <<liFrame, foundPhotons, searchDist2, liFault, readVars,
                   lastReturn>>

\* line 773: specularDepth++ < maxSpecularDepth
LiSpecularTest ==
    /\ At("specular")
    /\ specularDepth' = specularDepth + 1
    /\ IF specularDepth < maxSpecularDepth
         THEN Goto("reflect")
         ELSE stack' = [stack EXCEPT ![Len(stack)].at = "leave",
                                     ![Len(stack)].path = "capped"]
    /\ UNCHANGED <<liFrame, foundPhotons, searchDist2, liFault, readVars,
                   lastReturn>>

\* scene->Li(rd, sample) at lines 798, 826: a nested Surface_Li call; the
\* caller resumes at `resume`
Nested(resume) ==
    stack' = Append([stack EXCEPT ![Len(stack)].at = resume,
                                  ![Len(stack)].path = "recursed"],
                    Frame(specularDepth))

\* lines 776-799: the reflection ray, when f is not black
LiReflect ==
    /\ At("reflect")
    /\ \E black \in BOOLEAN : IF black THEN Goto("refract") ELSE Nested("refract")
    /\ UNCHANGED <<liFrame, foundPhotons, specularDepth, searchDist2, liFault,
                   readVars, lastReturn>>

\* lines 800-827: the refraction ray, when f is not black
LiRefract ==
    /\ At("refract")
    /\ \E black \in BOOLEAN : IF black THEN Goto("leave") ELSE Nested("leave")
    /\ UNCHANGED <<liFrame, foundPhotons, specularDepth, searchDist2, liFault,
                   readVars, lastReturn>>

\* lines 829, 839
LiLeave ==
    /\ At("leave")
    /\ specularDepth' = specularDepth - 1
    /\ Return(specularDepth - 1)
    /\ UNCHANGED <<liFrame, foundPhotons, searchDist2, liFault, readVars>>

\* Volume_Li, lines 923-936: the read of the volume map at one step
VolumeLi ==
    /\ stack = <<>>
    /\ ~liFault
    /\ IF volumeMap # NULL
         THEN \E found \in FoundWithin(volumeMap, maxDistSquared, nLookup) :
                 Read(volumeMap, nLookup, IF found = 0 THEN "zero" ELSE "estimate")
         ELSE Read(volumeMap, nLookup, "zero")
    /\ UNCHANGED <<liFrame, foundPhotons, specularDepth, stack, searchDist2,
                   liFault, lastReturn>>

LiNext ==
    \/ LiCall
    \/ LiMiss
    \/ LiHit
    \/ LiCaustic
    \/ LiIndirect
    \/ LiGatherSkip
    \/ LiGatherStart
    \/ LiGatherTest
    \/ LiGatherLookup
    \/ LiGatherRays
    \/ LiSpecularTest
    \/ LiReflect
    \/ LiRefract
    \/ LiLeave
    \/ VolumeLi

LiSpec == LiInit /\ [][LiNext]_vars

LiFairSpec == LiSpec /\ WF_vars(LiNext)

(***************************************************************************)
(* C5: no shading query fails, and a query against a map that was never    *)
(* built, holds no photon or holds fewer than the lookup asks for           *)
(* contributes zero.                                                       *)
(***************************************************************************)
C5_AbsentMapZero == ~liFault /\ absentReadZero /\ fewReadZero

(***************************************************************************)
(* C6: the radius-doubling search of the final gather terminates, for      *)
(* every indirect map.                                                     *)
(***************************************************************************)
InGatherSearch == At("gatherTest") \/ At("gatherLookup")

C6_GatherSearchEnds == (InGatherSearch /\ indirectMap # NULL) ~> ~InGatherSearch

(***************************************************************************)
(* C10: every return of Surface_Li leaves specularDepth at the value it    *)
(* had when that call was entered.                                         *)
(***************************************************************************)
C10_DepthRestored == lastReturn.exit = lastReturn.entry

\* the reflection call of the outermost Surface_Li, entered at depth 1, has
\* itself recursed and returned
C10_Witness ==
    /\ Len(stack) = 1 /\ Top.at = "refract" /\ Top.path = "recursed"
    /\ lastReturn = [entry |-> 1, exit |-> 1]
    /\ specularDepth = 1

(***************************************************************************)
(* C20: a Surface_Li call traces its specular reflection and refraction    *)
(* rays only if specularDepth was below maxSpecularDepth when it was       *)
(* entered; at most maxSpecularDepth + 1 calls are nested and specularDepth*)
(* never exceeds maxSpecularDepth + 1.                                     *)
(***************************************************************************)
C20_DepthCapped ==
    /\ \A i \in 1..Len(stack) :
          (stack[i].at \in {"reflect", "refract"} \/ stack[i].path = "recursed")
             => stack[i].entry < maxSpecularDepth
    /\ Len(stack) <= maxSpecularDepth + 1
    /\ specularDepth \in 0..(maxSpecularDepth + 1)

\* the deepest call there can be has found the cap reached
C20_Witness ==
    /\ maxSpecularDepth = MaxDepth
    /\ Len(stack) = maxSpecularDepth + 1
    /\ Top.at = "leave" /\ Top.path = "capped"
    /\ Top.entry = maxSpecularDepth
    /\ specularDepth = maxSpecularDepth + 1

(***************************************************************************)
(* C21: a shot whose emission sample has zero pdf or black weight stores   *)
(* nothing.  Such a shot is the only step that leaves the head of the loop *)
(* of line 441 for the head of the loop; it advances the shot counter by   *)
(* one and leaves every photon set, the radiance-photon candidates, every  *)
(* completion flag, every map and every path count as they were.           *)
(***************************************************************************)
C21Step ==
    (pc = "loop" /\ pc' = "loop") =>
        /\ nshot' = nshot + 1
        /\ UNCHANGED <<countVars, radiancePhotons, rpIndex, doneVars, mapVars,
                       pathsVars, aborted, alreadyPreprocessed>>

C21_BlackShotStoresNothing == [][C21Step]_vars

\* a black shot was just made in a pass that had already stored a direct
\* photon, a photon of a category and a radiance-photon candidate, with a
\* category complete and its map built
C21_Witness ==
    /\ pc = "loop" /\ blackShot
    /\ directPhotons >= 1
    /\ Len(radiancePhotons) >= 1
    /\ \E c \in Categories : c.stored >= 1 /\ c.target = 1 /\ c.map # NULL
    /\ StillShooting

(***************************************************************************)
(* C22: the direct photon set has no target and no completion flag.  Its   *)
(* size changes only by the deposit of line 508, by one, at a path's first *)
(* intersection; a first intersection with a non-specular surface always   *)
(* stores a direct photon, whatever the completion flags say.  The direct  *)
(* map is built once, at the step after the loop of line 441 has ended by  *)
(* its condition, from all direct photons and with the shot counter as its *)
(* path count; every such end builds it.                                   *)
(***************************************************************************)
\* the hit is known to be non-specular: a diffuse lobe was sampled (line 566)
\* or a radiance-photon candidate was stored (line 537)
NonSpecularHit ==
    /\ pc = "surface"
    /\ flags' = "diffuse" \/ Len(radiancePhotons') > Len(radiancePhotons)

C22Step ==
    /\ directPhotons' # directPhotons =>
          /\ pc = "surface" /\ nIntersections = 1
          /\ directPhotons' = directPhotons + 1
    /\ (NonSpecularHit /\ nIntersections = 1) => directPhotons' = directPhotons + 1
    /\ (directMap' # directMap \/ nDirectPaths' # nDirectPaths) =>
          /\ pc = "post" /\ ~StillShooting /\ ~aborted
          /\ directMap = NULL
    /\ (pc = "post" /\ pc' # "post") =>
          /\ directMap' = KdTree(directPhotons)
          /\ nDirectPaths' = nshot

C22_DirectSet == [][C22Step]_vars

\* a pass has returned after more shots than any target, every shot stored a
\* direct photon, and the direct map holds them all
C22_Witness ==
    /\ pc = "returned" /\ ~aborted
    /\ directPhotons = nshot /\ directPhotons > MaxTarget
    /\ directMap = KdTree(directPhotons)
    /\ nDirectPaths = nshot

\* the first hit of the last shot stored its direct photon with every
\* category already complete
C22_StoredAfterCompletion ==
    /\ pc = "intersect" /\ nIntersections = 1 /\ flags = "diffuse"
    /\ ~StillShooting
    /\ nVolumePhotons = MaxTarget /\ nCausticPhotons = 0 /\ nIndirectPhotons = 0
    /\ directPhotons = nshot /\ nshot = MaxTarget

(***************************************************************************)
(*                    The median-cut environment light                     *)
(*                                                                         *)
(* src/src/lights/medianCutEnvironmentLight.cpp.  A MedianCutRect is       *)
(* modelled by its identity: the light whose constructor allocated it and  *)
(* its position in that light's tree (1 for the root mcr, 2n and 2n+1 for  *)
(* the left and right child of n).  The rectangles and their sums do not   *)
(* decide the shape of the tree and are left out.  The vector leafs is the *)
(* file-scope one of line 43, shared by every light of the process.        *)
(***************************************************************************)
\* most lights constructed in one process
MaxLights == 2
\* largest nsamples of a light
MaxSamples == 3

LightIds == 1..MaxLights

\* Log2 of line 129, converted to int: the largest h with 2^h <= n, for n >= 1
RECURSIVE Log2(_)
Log2(n) == IF n <= 1 THEN 0 ELSE 1 + Log2(n \div 2)

MedianCutRect(l, n) == [light |-> l, node |-> n]

\* lines 127-216: the leaves CutCut(root, nowTreeHeight) pushes onto leafs, in
\* the order of the calls.  Both branches of line 136 push at the same height
\* (lines 163-166, 202-205) and recurse alike (lines 169-173, 208-212)
RECURSIVE CutCut(_, _, _)
CutCut(root, nowTreeHeight, ns) ==
    LET LimitedHeight == Log2(ns) IN
    IF nowTreeHeight > LimitedHeight
      THEN <<>>
    ELSE IF nowTreeHeight + 1 > LimitedHeight
      THEN <<root>>
    ELSE CutCut(MedianCutRect(root.light, 2 * root.node), nowTreeHeight + 1, ns)
            \o CutCut(MedianCutRect(root.light, 2 * root.node + 1), nowTreeHeight + 1, ns)

\* the MedianCutRect was freed by deleteMcr(mcr) of its light's destructor
Deleted(rect) == rect.light \in destructed

\* what a read or write of freed memory leads to
UseAfterFree(used) ==
    IF \E i \in 1..Len(used) : Deleted(used[i])
      THEN lightRun' \in {"corrupt", "crashed"}
      ELSE UNCHANGED lightRun

\* lines 52-100: the constructor.  Line 93 allocates mcr, line 94 appends the
\* leaves of its tree to leafs, lines 96-99 write the LightPoint of every
\* element of leafs
Construct ==
    /\ lightRun # "crashed"
    /\ Cardinality(constructed) < MaxLights
    /\ \E ns \in 1..MaxSamples :
          LET l == Cardinality(constructed) + 1
              mcr == MedianCutRect(l, 1)
          IN  /\ constructed' = constructed \cup {l}
              /\ nSamples' = Append(nSamples, ns)
              /\ leafs' = leafs \o CutCut(mcr, 0, ns)
              /\ UseAfterFree(leafs)
    /\ UNCHANGED <<destructed, selected>>
    /\ UNCHANGED <<configVars, prepVars, lookupVars, liVars>>

\* lines 46-50: the destructor deletes the light's tree; leafs keeps its
\* pointers into it
Destruct ==
    /\ lightRun # "crashed"
    /\ \E l \in constructed \ destructed :
          destructed' = destructed \cup {l}
    /\ UNCHANGED <<constructed, nSamples, leafs, selected, lightRun>>
    /\ UNCHANGED <<configVars, prepVars, lookupVars, liVars>>

\* lines 230-261: Sample_L(p, ...) of a live light.  u stands for
\* static_cast<int>(ls.uPos[0] * nSamples), with uPos[0] in [0, 1)
Sample_L ==
    /\ lightRun # "crashed"
    /\ \E l \in constructed \ destructed, u \in 0..(MaxSamples - 1) :
          /\ u < nSamples[l]
          /\ LET randomLightSampleNum == u % Len(leafs)
                 leaf == leafs[randomLightSampleNum + 1]
             IN  /\ selected' = [by |-> l, leaf |-> leaf, deleted |-> Deleted(leaf)]
                 /\ UseAfterFree(<<leaf>>)
    /\ UNCHANGED <<constructed, destructed, nSamples, leafs>>
    /\ UNCHANGED <<configVars, prepVars, lookupVars, liVars>>

LightInit == PrepIdle /\ LookupIdle /\ LiIdle /\ LightIdle

LightNext == Construct \/ Destruct \/ Sample_L

LightSpec == LightInit /\ [][LightNext]_vars

\* the leaves of light l's own median-cut tree
LeavesOf(l) ==
    LET own == CutCut(MedianCutRect(l, 1), 0, nSamples[l]) IN
    {own[i] : i \in 1..Len(own)}

(***************************************************************************)
(* C24: for any sequence of constructions and destructions, the leaf that  *)
(* Sample_L selects for a light is a leaf of that light's own median-cut   *)
(* tree and was not deleted when it was selected.                          *)
(***************************************************************************)
C24_OwnLiveLeaf ==
    selected # NoSelection =>
       /\ selected.leaf \in LeavesOf(selected.by)
       /\ ~selected.deleted

\* the same while one light only was ever constructed in the process
C24_FirstLightOnly ==
    Cardinality(constructed) <= 1 => C24_OwnLiveLeaf

\* the only light of the process, cut into more than one leaf, has sampled
\* its last leaf
C24_FirstLightSampled ==
    /\ constructed = {1} /\ destructed = {}
    /\ Len(leafs) > 1
    /\ selected = [by |-> 1, leaf |-> leafs[Len(leafs)], deleted |-> FALSE]
=============================================================================
